---------------------------- MODULE Spec2Model ----------------------------
(***************************************************************************)
(* The tennis-club application: the Member, Team, Profile and Match        *)
(* tables of members/models.py, the HTML and JSON views of                 *)
(* members/views.py with the MemberForm of members/forms.py, and the       *)
(* seeding script populate_data.py.                                        *)
(*                                                                         *)
(* The database is the state.  Every view is one action that takes the     *)
(* request (method, pk, body) as its input and leaves the HTTP response in *)
(* the variable response.  The behaviour of the framework that the source  *)
(* relies on by declaration (unique=True, on_delete=CASCADE / SET_NULL,    *)
(* auto_now_add, the OneToOneField, the ModelForm's field cleaning, the    *)
(* require_http_methods decorator) is modelled at the declaration.         *)
(***************************************************************************)
EXTENDS Integers, Sequences, FiniteSets, TLC

VARIABLES
    members,        \* the members table: pk -> row
    nextMemberId,   \* the next primary key of the members table
    teams,          \* the pks of the stored Teams
    nextTeamId,     \* the next primary key of the Team table
    profiles,       \* the Profile rows, each named by its (unique) member_id
    matches,        \* the Match table: pk -> row
    nextMatchId,    \* the next primary key of the Match table
    today,          \* the current date, as a day number
    in_flight,      \* the create requests in flight: what each has got to
    response        \* the response to the last request

vars == <<members, nextMemberId, teams, nextTeamId, profiles, matches,
          nextMatchId, today, in_flight, response>>

db == <<members, nextMemberId, teams, nextTeamId, profiles, matches, nextMatchId>>

-----------------------------------------------------------------------------
(* Bounds of the model. *)

\* primary keys of members are handed out up to this one
MaxMemberId == 3
\* primary keys of Teams are handed out up to this one
MaxTeamId == 2
\* primary keys of Matches are handed out up to this one
MaxMatchId == 1
\* the clock runs from day 1 to this day
MaxDay == 2
\* the seeding script's list is cut to its first SeedCount rows
SeedCount == 2
\* the create requests the server handles at the same time
MaxWorkers == 2

-----------------------------------------------------------------------------
(* Values. *)

\* a null foreign key (team, winner), or no primary key
NULL == 0

\* a key that a JSON body does not have
ABSENT == "<absent>"

\* the body of a JSON request: whether it is JSON text, and the keys of the object
Json(firstname, lastname, email, phone) ==
    [json |-> TRUE, firstname |-> firstname, lastname |-> lastname,
     email |-> email, phone |-> phone]

\* a JSON object without keys
NoKeys == Json(ABSENT, ABSENT, ABSENT, ABSENT)

\* a request body that json.loads rejects
BadJson == [NoKeys EXCEPT !.json = FALSE]

\* a parser that takes any text for an object without keys
loads_anything(body) == TRUE

\* json.loads(request.body) returns
loads(body) == body.json

\* the rows of populate_data.py's members_data
members_data ==
    << [firstname |-> "Serena", lastname |-> "Williams",
        email |-> "serena.williams@tennis.com", phone |-> "555-0101"],
       [firstname |-> "Roger", lastname |-> "Federer",
        email |-> "roger.federer@tennis.com", phone |-> "555-0102"],
       [firstname |-> "Rafael", lastname |-> "Nadal",
        email |-> "rafael.nadal@tennis.com", phone |-> "555-0103"],
       [firstname |-> "Naomi", lastname |-> "Osaka",
        email |-> "naomi.osaka@tennis.com", phone |-> "555-0104"],
       [firstname |-> "Novak", lastname |-> "Djokovic",
        email |-> "novak.djokovic@tennis.com", phone |-> "555-0105"],
       [firstname |-> "Simona", lastname |-> "Halep",
        email |-> "simona.halep@tennis.com", phone |-> "555-0106"],
       [firstname |-> "Andy", lastname |-> "Murray",
        email |-> "andy.murray@tennis.com", phone |-> "555-0107"],
       [firstname |-> "Maria", lastname |-> "Sharapova",
        email |-> "maria.sharapova@tennis.com", phone |-> "555-0108"] >>

\* the rows the seeding script creates in this model
SeedRows == SubSeq(members_data, 1, SeedCount)

\* an email typed with a leading blank
Padded(s) == " " \o s

\* the well-formed addresses among the strings the model submits
WellFormedEmails == {members_data[i].email : i \in 1..Len(members_data)}

\* the padded texts, each with the text it pads
Unpadded == [p \in {Padded(e) : e \in WellFormedEmails} |->
                CHOOSE e \in WellFormedEmails : p = Padded(e)]

\* forms.CharField(strip=True).to_python: the blanks around a submitted text go
strip(s) == IF s \in DOMAIN Unpadded THEN Unpadded[s] ELSE s

\* the EmailValidator of the form's EmailField
validate_email(s) == s \in WellFormedEmails

\* date.isoformat(): the days of the model are the days of one month
isoformat(d) == "2024-01-" \o (IF d < 10 THEN "0" ELSE "") \o ToString(d)

\* the first and last names of the model in the order the database compares
\* text (all start with a capital and are in letters of one case after it)
collation ==
    << "Andy", "Djokovic", "Federer", "Halep", "Maria", "Murray", "Nadal",
       "Naomi", "Novak", "Osaka", "Rafael", "Roger", "Serena", "Sharapova",
       "Simona", "Williams" >>

\* the place of a name in that order
Rank == [n \in {collation[i] : i \in 1..Len(collation)} |->
            CHOOSE i \in 1..Len(collation) : collation[i] = n]

-----------------------------------------------------------------------------
(* The members table. *)

pks == DOMAIN members

\* the unique index left off the email column
unique_email_dropped(email, pk) == TRUE

\* the email checked when a row is inserted (pk = NULL) and not when one is updated
unique_email_on_insert_only(email, pk) ==
    pk # NULL \/ \A m \in DOMAIN members : members[m].email # email

\* Member.email, unique=True: the store refuses a row whose email another row has
unique_email(email, pk) ==
    \A m \in pks \ {pk} : members[m].email # email

\* Member.team ... tournaments: the row of a new Member; joined_date is
\* auto_now_add, the team is null
NewMember(firstname, lastname, email, phone) ==
    [firstname |-> firstname, lastname |-> lastname, email |-> email,
     phone |-> phone, joined_date |-> today, team |-> NULL]

\* the primary key taken from the number of rows
Insert_by_count(row) ==
    /\ members' = members @@ ((Cardinality(DOMAIN members) + 1) :> row)
    /\ nextMemberId' = nextMemberId + 1

\* INSERT of a row under the next primary key
Insert(row) ==
    /\ members' = members @@ (nextMemberId :> row)
    /\ nextMemberId' = nextMemberId + 1


\* the rows left when the Members D go
MembersAfterDelete(D) == [m \in pks \ D |-> members[m]]

\* Profile.member, on_delete=CASCADE: the Profiles of the deleted Members go
ProfilesAfterDelete(D) == profiles \ D

\* the cascade declared on player1 alone
MatchesKept_player1_only(D) ==
    {k \in DOMAIN matches : matches[k].player1 \notin D}

\* Match.player1, Match.player2, on_delete=CASCADE: the Matches that a deleted
\* Member plays go
MatchesKept(D) ==
    {k \in DOMAIN matches : matches[k].player1 \notin D /\ matches[k].player2 \notin D}

\* Match.winner, on_delete=SET_NULL: a deleted Member is cleared from the winner
\* of the Matches that stay
WinnerAfterDelete(w, D) == IF w \in D THEN NULL ELSE w

MatchesAfterDelete(D) ==
    [k \in MatchesKept(D) |->
        [matches[k] EXCEPT !.winner = WinnerAfterDelete(@, D)]]

\* Model.delete / QuerySet.delete of the Members D with everything that cascades
DeleteMembers(D) ==
    /\ members' = MembersAfterDelete(D)
    /\ profiles' = ProfilesAfterDelete(D)
    /\ matches' = MatchesAfterDelete(D)

-----------------------------------------------------------------------------
(* members/forms.py: MemberForm. *)

\* the check without .exclude(pk=self.instance.pk)
clean_email_no_exclude(email, instance_pk) ==
    \E m \in DOMAIN members : members[m].email = email

\* MemberForm.clean_email: the email is in use by a member other than the instance
clean_email(email, instance_pk) ==
    \E m \in pks \ {instance_pk} : members[m].email = email

\* the values the form's fields hand on: every CharField strips its text
cleaned_data(data) ==
    [firstname |-> strip(data.firstname), lastname |-> strip(data.lastname),
     email |-> strip(data.email), phone |-> strip(data.phone)]

\* the errors of the form's fields: firstname, lastname and email are required
\* (blank=False), phone is not (blank=True); the email is validated, and only
\* then handed to clean_email
field_errors(data, instance_pk) ==
    LET c == cleaned_data(data) IN
       (IF c.firstname = "" THEN {"firstname: required"} ELSE {})
    \cup (IF c.lastname = "" THEN {"lastname: required"} ELSE {})
    \cup (IF c.email = "" THEN {"email: required"}
          ELSE IF ~validate_email(c.email) THEN {"email: invalid"}
          ELSE IF clean_email(c.email, instance_pk)
               THEN {"email: This email is already in use."}
          ELSE {})

\* ModelForm._post_clean: validate_unique on the unique fields that are still
\* free of errors
validate_unique(e, data, instance_pk) ==
    LET email_ok == e \cap {"email: required", "email: invalid",
                            "email: This email is already in use."} = {}
    IN IF email_ok /\ ~unique_email(cleaned_data(data).email, instance_pk)
       THEN e \cup {"email: Member with this Email already exists."}
       ELSE e

\* form.errors: the fields are cleaned, then the instance is validated
form_errors(data, instance_pk) ==
    validate_unique(field_errors(data, instance_pk), data, instance_pk)

is_valid(data, instance_pk) == form_errors(data, instance_pk) = {}

-----------------------------------------------------------------------------
(* members/views.py. *)

\* what an operation answers: the HTTP status of a view (0 for the script and
\* the ORM calls), the errors it reports or raises, the primary key it names,
\* and the Members it says it deleted
Response(op, status, errors, id) ==
    [op |-> op, status |-> status, errors |-> errors, id |-> id, deleted |-> {},
     data |-> <<>>]

Deleted(op, status, id, D) ==
    [op |-> op, status |-> status, errors |-> {}, id |-> id, deleted |-> D,
     data |-> <<>>]

\* get_object_or_404 found no Member: the HTML not-found page
Http404(op) == Response(op, 404, {"Not Found"}, NULL)

\* the error body sent without status=404
NotFound_default_status(op) ==
    [op |-> op, status |-> 200, errors |-> {"Member not found"}, id |-> 0,
     deleted |-> {}, data |-> <<>>]

\* JsonResponse({'error': 'Member not found'}, status=404)
NotFound(op) == Response(op, 404, {"Member not found"}, NULL)

\* the same with joined_date declared auto_now: every save sets it
WithFields_auto_now(row, r) ==
    [row EXCEPT !.firstname = r.firstname, !.lastname = r.lastname,
                !.email = r.email, !.phone = r.phone, !.joined_date = today]

\* firstname, lastname, email, phone of a row replaced by those of r; the save
\* leaves joined_date (auto_now_add) and team as they are
WithFields(row, r) ==
    [row EXCEPT !.firstname = r.firstname, !.lastname = r.lastname,
                !.email = r.email, !.phone = r.phone]

member_list ==
    /\ response' = Response("member_list", 200, {}, NULL)
    /\ UNCHANGED <<db, today>>

member_detail(pk) ==
    /\ response' = IF pk \in pks
                   THEN Response("member_detail", 200, {}, pk)
                   ELSE Http404("member_detail")
    /\ UNCHANGED <<db, today>>

member_create(method, data) ==
    /\ IF method = "POST" /\ is_valid(data, NULL)
       THEN LET c == cleaned_data(data) IN
            /\ nextMemberId <= MaxMemberId
            /\ Insert(NewMember(c.firstname, c.lastname, c.email, c.phone))
            /\ response' = Response("member_create", 302, {}, nextMemberId)
       ELSE /\ response' = Response("member_create", 200,
                   IF method = "POST" THEN form_errors(data, NULL) ELSE {}, NULL)
            /\ UNCHANGED <<members, nextMemberId>>
    /\ UNCHANGED <<teams, nextTeamId, profiles, matches, nextMatchId, today>>

member_update(pk, method, data) ==
    /\ IF pk \notin pks
       THEN /\ response' = Http404("member_update")
            /\ UNCHANGED members
       ELSE IF method = "POST" /\ is_valid(data, pk)
       THEN /\ members' = [members EXCEPT ![pk] = WithFields(@, cleaned_data(data))]
            /\ response' = Response("member_update", 302, {}, pk)
       ELSE /\ response' = Response("member_update", 200,
                   IF method = "POST" THEN form_errors(data, pk) ELSE {}, pk)
            /\ UNCHANGED members
    /\ UNCHANGED <<nextMemberId, teams, nextTeamId, profiles, matches,
                   nextMatchId, today>>

\* the view without the confirmation page: it deletes on any method
member_delete_on_any_method(pk, method) ==
    /\ IF pk \notin pks
       THEN /\ response' = Http404("member_delete")
            /\ UNCHANGED <<members, profiles, matches>>
       ELSE /\ DeleteMembers({pk})
            /\ response' = Deleted("member_delete", 302, NULL, {pk})
    /\ UNCHANGED <<nextMemberId, teams, nextTeamId, nextMatchId, today>>

member_delete(pk, method) ==
    /\ IF pk \notin pks
       THEN /\ response' = Http404("member_delete")
            /\ UNCHANGED <<members, profiles, matches>>
       ELSE IF method = "POST"
       THEN /\ DeleteMembers({pk})
            /\ response' = Deleted("member_delete", 302, NULL, {pk})
       ELSE /\ response' = Response("member_delete", 200, {}, pk)
            /\ UNCHANGED <<members, profiles, matches>>
    /\ UNCHANGED <<nextMemberId, teams, nextTeamId, nextMatchId, today>>

\* Meta.ordering = ['lastname', 'firstname']: m comes before n; two Members of
\* one name come in the order of their primary keys, as the table is scanned
Before(m, n) ==
    LET lm == Rank[members[m].lastname]
        ln == Rank[members[n].lastname]
        fm == Rank[members[m].firstname]
        fn == Rank[members[n].firstname]
    IN \/ lm < ln
       \/ lm = ln /\ fm < fn
       \/ lm = ln /\ fm = fn /\ m < n

\* Member.objects.all(): the primary keys of S in the order of the query
RECURSIVE all(_)
all(S) ==
    IF S = {} THEN <<>>
    ELSE LET m == CHOOSE m \in S : \A n \in S \ {m} : Before(m, n)
         IN <<m>> \o all(S \ {m})

\* the dictionary of the create and update answers, which has four keys
member_dict_without_phone_and_date(pk) ==
    [id |-> pk, firstname |-> members[pk].firstname,
     lastname |-> members[pk].lastname, email |-> members[pk].email]

\* the dictionary the list and the detail endpoint build for a Member
member_dict(pk) ==
    [id |-> pk, firstname |-> members[pk].firstname,
     lastname |-> members[pk].lastname, email |-> members[pk].email,
     phone |-> members[pk].phone,
     joined_date |-> isoformat(members[pk].joined_date)]

\* the answer of a JSON endpoint that carries dictionaries of Members: the list
\* under 'members', or the one dictionary under 'member'
WithData(op, id, dicts) ==
    [op |-> op, status |-> 200, errors |-> {}, id |-> id, deleted |-> {},
     data |-> dicts]

member_list_json ==
    /\ \E ordered \in {all(pks)} :
          response' = WithData("member_list_json", NULL,
                               [i \in 1..Len(ordered) |-> member_dict(ordered[i])])
    /\ UNCHANGED <<db, today>>

member_detail_json(pk) ==
    /\ response' = IF pk \in pks
                   THEN WithData("member_detail_json", pk, <<member_dict(pk)>>)
                   ELSE NotFound("member_detail_json")
    /\ UNCHANGED <<db, today>>

\* @require_http_methods: any other method is answered 405 before the view runs
require_http_methods(allowed, method) == method \in allowed

\* data.get(key, default)
get(data, key, default) == IF data[key] = ABSENT THEN default ELSE data[key]

member_create_json(method, body) ==
    /\ IF ~require_http_methods({"POST"}, method)
       THEN /\ response' = Response("member_create_json", 405, {}, NULL)
            /\ UNCHANGED <<members, nextMemberId>>
       ELSE IF ~loads(body)
       THEN /\ response' = Response("member_create_json", 400, {"JSONDecodeError"}, NULL)
            /\ UNCHANGED <<members, nextMemberId>>
       ELSE IF ABSENT \in {body.firstname, body.lastname, body.email}
       THEN /\ response' = Response("member_create_json", 400, {"KeyError"}, NULL)
            /\ UNCHANGED <<members, nextMemberId>>
       ELSE IF ~unique_email(body.email, NULL)
       THEN /\ response' = Response("member_create_json", 400, {"IntegrityError"}, NULL)
            /\ UNCHANGED <<members, nextMemberId>>
       ELSE /\ nextMemberId <= MaxMemberId
            /\ Insert(NewMember(body.firstname, body.lastname, body.email,
                                get(body, "phone", "")))
            /\ response' = Response("member_create_json", 201, {}, nextMemberId)
    /\ UNCHANGED <<teams, nextTeamId, profiles, matches, nextMatchId, today>>

member_update_json(pk, method, body) ==
    /\ IF ~require_http_methods({"POST", "PUT", "PATCH"}, method)
       THEN /\ response' = Response("member_update_json", 405, {}, NULL)
            /\ UNCHANGED members
       ELSE IF pk \notin pks
       THEN /\ response' = NotFound("member_update_json")
            /\ UNCHANGED members
       ELSE IF ~loads(body)
       THEN /\ response' = Response("member_update_json", 400, {"JSONDecodeError"}, NULL)
            /\ UNCHANGED members
       ELSE LET row == members[pk]
                new == [firstname |-> get(body, "firstname", row.firstname),
                        lastname |-> get(body, "lastname", row.lastname),
                        email |-> get(body, "email", row.email),
                        phone |-> get(body, "phone", row.phone)]
            IN IF ~unique_email(new.email, pk)
               THEN /\ response' = Response("member_update_json", 400,
                                            {"IntegrityError"}, NULL)
                    /\ UNCHANGED members
               ELSE /\ members' = [members EXCEPT ![pk] = WithFields(@, new)]
                    /\ response' = Response("member_update_json", 200, {}, pk)
    /\ UNCHANGED <<nextMemberId, teams, nextTeamId, profiles, matches,
                   nextMatchId, today>>

member_delete_json(pk, method) ==
    /\ IF ~require_http_methods({"POST", "DELETE"}, method)
       THEN /\ response' = Response("member_delete_json", 405, {}, NULL)
            /\ UNCHANGED <<members, profiles, matches>>
       ELSE IF pk \notin pks
       THEN /\ response' = NotFound("member_delete_json")
            /\ UNCHANGED <<members, profiles, matches>>
       ELSE /\ DeleteMembers({pk})
            /\ response' = Deleted("member_delete_json", 200, pk, {pk})
    /\ UNCHANGED <<nextMemberId, teams, nextTeamId, nextMatchId, today>>

-----------------------------------------------------------------------------
(* populate_data.py. *)

\* the loop over members_data: Member.objects.create(**data) row by row; a row
\* the store refuses raises, and the script stops there
RECURSIVE create_rows(_, _, _)
create_rows(ms, next, i) ==
    IF i > Len(SeedRows) THEN [members |-> ms, next |-> next]
    ELSE IF \E m \in DOMAIN ms : ms[m].email = SeedRows[i].email
         THEN [members |-> ms, next |-> next]
    ELSE create_rows(ms @@ (next :> NewMember(SeedRows[i].firstname,
                                              SeedRows[i].lastname,
                                              SeedRows[i].email,
                                              SeedRows[i].phone)),
                     next + 1, i + 1)

\* Member.objects.all().delete(), then the loop
populate_data ==
    /\ nextMemberId + Len(SeedRows) - 1 <= MaxMemberId
    /\ LET made == create_rows(<< >>, nextMemberId, 1) IN
       /\ members' = made.members
       /\ nextMemberId' = made.next
    /\ profiles' = ProfilesAfterDelete(pks)
    /\ matches' = MatchesAfterDelete(pks)
    /\ response' = Deleted("populate_data", 0, NULL, pks)
    /\ UNCHANGED <<teams, nextTeamId, nextMatchId, today>>

-----------------------------------------------------------------------------
(* members/models.py: Team, Profile and Match, written through the ORM      *)
(* (the admin of members/admin.py, the shell).                              *)

\* Team(...).save() of a new Team
Team_create ==
    /\ nextTeamId <= MaxTeamId
    /\ teams' = teams \cup {nextTeamId}
    /\ nextTeamId' = nextTeamId + 1
    /\ response' = Response("Team_create", 0, {}, nextTeamId)
    /\ UNCHANGED <<members, nextMemberId, profiles, matches, nextMatchId, today>>

\* the cascade taking every Member that has a Team
team_members_of_any_team(t) == {m \in DOMAIN members : members[m].team # NULL}

\* Member.team, on_delete=CASCADE: the Members that reference the Team
team_members(t) == {m \in pks : members[m].team = t}

\* team.delete()
Team_delete(t) ==
    /\ t \in teams
    /\ teams' = teams \ {t}
    /\ DeleteMembers(team_members(t))
    /\ response' = Deleted("Team_delete", 0, t, team_members(t))
    /\ UNCHANGED <<nextMemberId, nextTeamId, nextMatchId, today>>

\* member.team = t; member.save()   (t a stored Team, or None)
Member_set_team(pk, t) ==
    /\ pk \in pks
    /\ t \in teams \cup {NULL}
    /\ members' = [members EXCEPT ![pk].team = t]
    /\ response' = Response("Member_set_team", 0, {}, pk)
    /\ UNCHANGED <<nextMemberId, teams, nextTeamId, profiles, matches,
                   nextMatchId, today>>

\* Profile(member=m).save() of a new Profile; the OneToOneField is unique
Profile_create(m) ==
    /\ m \in pks
    /\ IF m \in profiles
       THEN /\ response' = Response("Profile_create", 0, {"IntegrityError"}, NULL)
            /\ UNCHANGED profiles
       ELSE /\ profiles' = profiles \cup {m}
            /\ response' = Response("Profile_create", 0, {}, m)
    /\ UNCHANGED <<members, nextMemberId, teams, nextTeamId, matches,
                   nextMatchId, today>>

\* Match.save without its first check
same_player_unchecked(player1, player2) == FALSE

\* Match.save: the first check
same_player(player1, player2) == player1 = player2

\* the second check against player1 alone
winner_not_player1(player1, player2, winner) ==
    winner # 0 /\ winner # player1

\* the save without the check of the winner
winner_unchecked(player1, player2, winner) == FALSE

\* Match.save: the second check
winner_not_a_player(player1, player2, winner) ==
    winner # NULL /\ winner \notin {player1, player2}

\* Match.save of the Match k (a stored one, or a new one under the next primary
\* key) with these players and this winner
Match_save(k, player1, player2, winner) ==
    /\ k \in DOMAIN matches \/ (k = nextMatchId /\ k <= MaxMatchId)
    /\ {player1, player2} \subseteq pks
    /\ winner \in pks \cup {NULL}
    /\ IF same_player(player1, player2)
       THEN /\ response' = Response("Match_save", 0,
                   {"ValueError: A member cannot play against themselves!"}, k)
            /\ UNCHANGED <<matches, nextMatchId>>
       ELSE IF winner_not_a_player(player1, player2, winner)
       THEN /\ response' = Response("Match_save", 0,
                   {"ValueError: Winner must be one of the players!"}, k)
            /\ UNCHANGED <<matches, nextMatchId>>
       ELSE /\ matches' = [j \in DOMAIN matches \cup {k} |->
                             IF j = k THEN [player1 |-> player1, player2 |-> player2,
                                            winner |-> winner]
                             ELSE matches[j]]
            /\ nextMatchId' = IF k \in DOMAIN matches THEN nextMatchId
                              ELSE nextMatchId + 1
            /\ response' = Response("Match_save", 0, {}, k)
    /\ UNCHANGED <<members, nextMemberId, teams, nextTeamId, profiles, today>>

\* a day passes
Tick ==
    /\ today < MaxDay
    /\ today' = today + 1
    /\ UNCHANGED <<db, response>>

-----------------------------------------------------------------------------
(* The requests. *)

PKs == 1..MaxMemberId

\* the fields of a GET, which carries none
NoData == [firstname |-> "", lastname |-> "", email |-> "", phone |-> ""]

Row1 == members_data[1]
Row2 == members_data[2]

\* a row of members_data as a JSON body
JsonRow(i) == Json(members_data[i].firstname, members_data[i].lastname,
                  members_data[i].email, members_data[i].phone)

\* the POSTs to the HTML forms: the names of either row with the email of
\* either row, with and without a phone, one with a padded email, and one for
\* each way a field fails
FormPosts ==
    {[firstname |-> r.firstname, lastname |-> r.lastname, email |-> e, phone |-> p] :
        r \in {Row1, Row2}, e \in {Row1.email, Row2.email}, p \in {Row1.phone, ""}}
    \cup {[Row1 EXCEPT !.email = Padded(Row1.email)],
          [Row1 EXCEPT !.firstname = ""], [Row1 EXCEPT !.lastname = ""],
          [Row1 EXCEPT !.email = ""], [Row1 EXCEPT !.email = "not-an-email"]}

FormRequests == {<<"GET", NoData>>} \cup {<<"POST", d>> : d \in FormPosts}

\* the bodies sent to the JSON create endpoint: every key, no phone, a required
\* key missing, and a body that is not JSON
CreateBodies ==
    {Json(r.firstname, r.lastname, e, p) :
        r \in {Row1, Row2}, e \in {Row1.email, Row2.email}, p \in {Row1.phone, ABSENT}}
    \cup {[JsonRow(1) EXCEPT !.firstname = ABSENT],
          [JsonRow(1) EXCEPT !.lastname = ABSENT],
          [JsonRow(1) EXCEPT !.email = ABSENT], BadJson}

CreateRequests == {<<"GET", BadJson>>} \cup {<<"POST", b>> : b \in CreateBodies}

\* the bodies sent to the JSON update endpoint: no key, some keys, every key, and
\* a body that is not JSON
UpdateBodies ==
    {NoKeys, BadJson}
    \cup {[NoKeys EXCEPT !.firstname = r.firstname, !.lastname = r.lastname] :
             r \in {Row1, Row2}}
    \cup {[NoKeys EXCEPT !.email = v] : v \in {Row1.email, Row2.email}}
    \cup {[NoKeys EXCEPT !.phone = v] : v \in {Row1.phone, ""}}
    \cup {JsonRow(1), JsonRow(2)}

UpdateRequests ==
    {<<"GET", BadJson>>, <<"POST", NoKeys>>, <<"PATCH", NoKeys>>}
    \cup {<<"PUT", b>> : b \in UpdateBodies}

-----------------------------------------------------------------------------------------------------------------------------------------------------
(* member_create on a POST, statement by statement, for requests that the   *)
(* server handles at the same time.  Each query is one step: the SELECT of  *)
(* clean_email, the SELECT of validate_unique, the INSERT of form.save().   *)

Workers == 1..MaxWorkers

\* a worker without a request
Idle == [pc |-> "idle", data |-> NoData, errors |-> {}]

\* request.method == 'POST': form = MemberForm(request.POST)
create_POST(w, data) ==
    /\ in_flight[w].pc = "idle"
    /\ in_flight' = [in_flight EXCEPT
                        ![w] = [pc |-> "clean_email", data |-> data, errors |-> {}]]
    /\ UNCHANGED <<db, today, response>>

\* form.is_valid(), first part: the fields are cleaned; clean_email reads
create_clean_email(w) ==
    /\ in_flight[w].pc = "clean_email"
    /\ in_flight' = [in_flight EXCEPT
                        ![w].pc = "validate_unique",
                        ![w].errors = field_errors(in_flight[w].data, NULL)]
    /\ UNCHANGED <<db, today, response>>

\* form.is_valid(), second part: validate_unique reads; with errors the form
\* is rendered again
create_validate_unique(w) ==
    /\ in_flight[w].pc = "validate_unique"
    /\ LET e == validate_unique(in_flight[w].errors, in_flight[w].data, NULL)
       IN IF e = {}
          THEN /\ in_flight' = [in_flight EXCEPT ![w].pc = "save"]
               /\ UNCHANGED response
          ELSE /\ in_flight' = [in_flight EXCEPT ![w] = Idle]
               /\ response' = Response("member_create", 200, e, NULL)
    /\ UNCHANGED <<db, today>>

\* form.save(): the INSERT; the IntegrityError of a refused INSERT is not
\* caught by the view, and the request is answered 500
create_save(w) ==
    /\ in_flight[w].pc = "save"
    /\ LET c == cleaned_data(in_flight[w].data) IN
       IF unique_email(c.email, NULL)
       THEN /\ nextMemberId <= MaxMemberId
            /\ Insert(NewMember(c.firstname, c.lastname, c.email, c.phone))
            /\ response' = Response("member_create", 302, {}, nextMemberId)
       ELSE /\ response' = Response("member_create", 500, {"IntegrityError"}, NULL)
            /\ UNCHANGED <<members, nextMemberId>>
    /\ in_flight' = [in_flight EXCEPT ![w] = Idle]
    /\ UNCHANGED <<teams, nextTeamId, profiles, matches, nextMatchId, today>>

-----
(* The specification of the member views and the seeding script. *)

Init ==
    /\ members = << >>
    /\ nextMemberId = 1
    /\ teams = {}
    /\ nextTeamId = 1
    /\ profiles = {}
    /\ matches = << >>
    /\ nextMatchId = 1
    /\ today = 1
    /\ response = Response("", 0, {}, NULL)   \* no request yet
    /\ in_flight = [r \in Workers |-> Idle]

Next ==
    /\ \/ member_list
       \/ \E pk \in PKs : member_detail(pk)
       \/ \E r \in FormRequests : member_create(r[1], r[2])
       \/ \E pk \in PKs, r \in FormRequests : member_update(pk, r[1], r[2])
       \/ \E pk \in PKs, method \in {"GET", "POST"} : member_delete(pk, method)
       \/ member_list_json
       \/ \E pk \in PKs : member_detail_json(pk)
       \/ \E r \in CreateRequests : member_create_json(r[1], r[2])
       \/ \E pk \in PKs, r \in UpdateRequests : member_update_json(pk, r[1], r[2])
       \/ \E pk \in PKs, method \in {"GET", "POST", "DELETE"} :
             member_delete_json(pk, method)
       \/ populate_data
       \/ Tick
    /\ UNCHANGED in_flight

Spec == Init /\ [][Next]_vars

-----------------------------------------------------------------------------
(* The specification of the relations: Teams, Profiles and Matches over     *)
(* members created from the rows of the seeding script.                     *)

\* the i-th Member to sign up sends the i-th row of the seeding script's list
SignUp == JsonRow(IF nextMemberId <= Len(members_data) THEN nextMemberId
                  ELSE Len(members_data))

NextRelations ==
    /\ \/ member_create_json("POST", SignUp)
       \/ populate_data
       \/ \E pk \in PKs, method \in {"GET", "POST"} : member_delete(pk, method)
       \/ \E pk \in PKs : member_delete_json(pk, "DELETE")
       \/ Team_create
       \/ \E t \in 1..MaxTeamId : Team_delete(t)
       \/ \E pk \in PKs, t \in 0..MaxTeamId : Member_set_team(pk, t)
       \/ \E m \in PKs : Profile_create(m)
       \/ \E k \in 1..MaxMatchId, p1 \in PKs, p2 \in PKs, w \in {NULL} \cup PKs :
             Match_save(k, p1, p2, w)
    /\ UNCHANGED in_flight

SpecRelations == Init /\ [][NextRelations]_vars

-----------------------------------------------------------------------------
(* The specification of create requests handled at the same time, with      *)
(* deletes between their steps.                                             *)

NextInterleaved ==
    \/ \E w \in Workers, d \in FormPosts : create_POST(w, d)
    \/ \E w \in Workers : create_clean_email(w)
    \/ \E w \in Workers : create_validate_unique(w)
    \/ \E w \in Workers : create_save(w)
    \/ \E pk \in PKs : member_delete(pk, "POST") /\ UNCHANGED in_flight

SpecInterleaved == Init /\ [][NextInterleaved]_vars

-----------------------------------------------------------------------------
(* The claims.  A claim about one request is stated in every reachable state *)
(* for every request it covers: the view cannot take a step on that request *)
(* that ends otherwise than the claim says (~ENABLED of the view's step     *)
(* with the negated outcome).                                               *)

\* a member other than pk has this email
EmailUsedByAnother(email, pk) == \E m \in pks \ {pk} : members[m].email = email

\* the methods the JSON update endpoint accepts
UpdateMethods == {"POST", "PUT", "PATCH"}

\* the methods the JSON delete endpoint accepts
DeleteMethods == {"POST", "DELETE"}

\* the JSON requests whose body is an object with an email
WithEmail(requests) == {r \in requests : loads(r[2]) /\ r[2].email # ABSENT}

\* C1: in every reachable state no two distinct stored Members have the same
\* email.
C1_EmailUnique ==
    \A m1 \in pks, m2 \in pks : m1 # m2 => members[m1].email # members[m2].email

\* two Members are stored and the store has just refused a duplicate email
C1_Witness ==
    /\ Cardinality(pks) = 2
    /\ "IntegrityError" \in response.errors

\* C2: a create whose email another Member has, and an update to the email of
\* another Member, fail (the HTML form is shown again with an error, the JSON
\* endpoint answers 400 with an error), and the failing request leaves every
\* stored row as it was.
C2_DuplicateEmailRejected ==
    /\ \A d \in FormPosts :
          EmailUsedByAnother(cleaned_data(d).email, NULL)
          => ~ENABLED ( /\ member_create("POST", d)
                        /\ ~( /\ response'.status = 200
                              /\ response'.errors # {}
                              /\ UNCHANGED db ) )
    /\ \A pk \in pks, d \in FormPosts :
          EmailUsedByAnother(cleaned_data(d).email, pk)
          => ~ENABLED ( /\ member_update(pk, "POST", d)
                        /\ ~( /\ response'.status = 200
                              /\ response'.errors # {}
                              /\ UNCHANGED db ) )
    /\ \A r \in WithEmail(CreateRequests) :
          (r[1] = "POST" /\ EmailUsedByAnother(r[2].email, NULL))
          => ~ENABLED ( /\ member_create_json(r[1], r[2])
                        /\ ~( /\ response'.status = 400
                              /\ response'.errors # {}
                              /\ UNCHANGED db ) )
    /\ \A pk \in pks, r \in WithEmail(UpdateRequests) :
          (r[1] \in UpdateMethods /\ EmailUsedByAnother(r[2].email, pk))
          => ~ENABLED ( /\ member_update_json(pk, r[1], r[2])
                        /\ ~( /\ response'.status = 400
                              /\ response'.errors # {}
                              /\ UNCHANGED db ) )

\* the JSON update of one of two Members to the email of the other was refused
C2_Witness ==
    /\ Cardinality(pks) = 2
    /\ response.op = "member_update_json"
    /\ response.status = 400
    /\ response.errors = {"IntegrityError"}

\* C3: an update that keeps the Member's own email, with well-formed values in
\* the other fields, succeeds: no error is reported and the submitted
\* firstname, lastname and phone are stored (HTML form and JSON endpoint).
C3_KeepOwnEmail ==
    /\ \A pk \in pks, d \in FormPosts :
          LET c == cleaned_data(d) IN
          ( /\ c.email = members[pk].email /\ validate_email(c.email)
            /\ c.firstname # "" /\ c.lastname # "" )
          => ~ENABLED ( /\ member_update(pk, "POST", d)
                        /\ ~( /\ response'.status = 302
                              /\ response'.errors = {}
                              /\ members'[pk].firstname = c.firstname
                              /\ members'[pk].lastname = c.lastname
                              /\ members'[pk].phone = c.phone
                              /\ members'[pk].email = members[pk].email ) )
    /\ \A pk \in pks, r \in UpdateRequests :
          ( /\ r[1] \in UpdateMethods /\ loads(r[2])
            /\ r[2].email \in {ABSENT, members[pk].email} )
          => ~ENABLED ( /\ member_update_json(pk, r[1], r[2])
                        /\ ~( /\ response'.status = 200
                              /\ response'.errors = {}
                              /\ \A f \in {"firstname", "lastname", "phone"} :
                                    members'[pk][f] =
                                       IF r[2][f] = ABSENT THEN members[pk][f]
                                       ELSE r[2][f]
                              /\ members'[pk].email = members[pk].email ) )

\* the HTML update of one of two Members succeeded; the two hold the only two
\* emails the requests of Spec carry, so the update kept the Member's own
C3_Witness ==
    /\ Cardinality(pks) = 2
    /\ response.op = "member_update"
    /\ response.status = 302

\* C4: deleting a Team deletes exactly the Members that reference it; the other
\* Members stay as they were; the Profiles and the Matches of the deleted
\* Members go with them, and no Match is left that names one of them.
C4_TeamDeleteCascades ==
    \A t \in teams :
       LET D == {m \in pks : members[m].team = t} IN
       ~ENABLED ( /\ Team_delete(t)
                  /\ ~( /\ t \notin teams'
                        /\ DOMAIN members' = pks \ D
                        /\ \A m \in DOMAIN members' :
                              members'[m] = members[m] /\ members'[m].team # t
                        /\ profiles' = profiles \ D
                        /\ DOMAIN matches' =
                              {k \in DOMAIN matches :
                                  /\ matches[k].player1 \notin D
                                  /\ matches[k].player2 \notin D}
                        /\ \A k \in DOMAIN matches' :
                              {matches'[k].player1, matches'[k].player2,
                               matches'[k].winner} \cap D = {} ) )

\* a Team was deleted with a Member of it, and a Member of another Team stays
C4_Witness ==
    /\ response.op = "Team_delete"
    /\ response.deleted # {}
    /\ \E m \in pks : members[m].team \in teams

\* what C5 says of a step that deletes the Members D
C5_Cascaded(D) ==
    /\ DOMAIN members' \cap D = {}
    /\ profiles' = profiles \ D
    /\ DOMAIN matches' =
          {k \in DOMAIN matches :
              matches[k].player1 \notin D /\ matches[k].player2 \notin D}
    /\ \A k \in DOMAIN matches' :
          {matches'[k].player1, matches'[k].player2, matches'[k].winner}
             \cap D = {}

C6_SamePlayerRejected ==
    /\ \A k \in DOMAIN matches : matches[k].player1 # matches[k].player2
    /\ \A k \in 1..MaxMatchId, p \in pks, w \in pks \cup {NULL} :
          ~ENABLED ( /\ Match_save(k, p, p, w)
                     /\ ~( /\ response'.errors # {}
                           /\ UNCHANGED db ) )

\* the save of a stored Match with player1 = player2 was refused
C6_Witness ==
    /\ response.op = "Match_save"
    /\ response.errors = {"ValueError: A member cannot play against themselves!"}
    /\ response.id \in DOMAIN matches

\* C7: for player1 # player2, Match.save with a winner that is neither player
\* raises and writes nothing; with no winner, or with player1 or player2 as the
\* winner, the Match is stored as given.
C7_WinnerMustPlay ==
    \A k \in 1..MaxMatchId, p1 \in pks, p2 \in pks, w \in pks \cup {NULL} :
       p1 # p2 =>
       ~ENABLED ( /\ Match_save(k, p1, p2, w)
                  /\ ~( IF w \in {NULL, p1, p2}
                        THEN /\ response'.errors = {}
                             /\ k \in DOMAIN matches'
                             /\ matches'[k] = [player1 |-> p1, player2 |-> p2,
                                               winner |-> w]
                        ELSE /\ response'.errors # {}
                             /\ UNCHANGED db ) )

\* a save with a third Member as the winner was refused
C7_Witness ==
    /\ response.op = "Match_save"
    /\ response.errors = {"ValueError: Winner must be one of the players!"}

\* C8: no step changes the joined_date of a stored Member, and a new Member
\* gets the date of the day it is created: after any sequence of updates the
\* joined_date is the one assigned at creation.
C8_JoinedDateFixed ==
    [][ /\ \A pk \in pks \cap DOMAIN members' :
              members'[pk].joined_date = members[pk].joined_date
        /\ \A pk \in DOMAIN members' \ pks : members'[pk].joined_date = today
      ]_vars

\* a Member that joined on an earlier day has just been updated
C8_Witness ==
    /\ response.op = "member_update_json"
    /\ response.status = 200
    /\ response.id \in pks
    /\ members[response.id].joined_date < today

\* C9: the JSON detail, update and delete endpoints, asked (with a method they
\* accept) for an id that matches no stored Member, answer 404 with an error
\* and leave the store as it was, whatever the body.
C9_NotFound ==
    \A pk \in PKs \ pks :
       /\ ~ENABLED ( /\ member_detail_json(pk)
                     /\ ~( /\ response'.status = 404
                           /\ response'.errors # {}
                           /\ UNCHANGED db ) )
       /\ \A r \in UpdateRequests :
             r[1] \in UpdateMethods
             => ~ENABLED ( /\ member_update_json(pk, r[1], r[2])
                           /\ ~( /\ response'.status = 404
                                 /\ response'.errors # {}
                                 /\ UNCHANGED db ) )
       /\ \A method \in DeleteMethods :
             ~ENABLED ( /\ member_delete_json(pk, method)
                        /\ ~( /\ response'.status = 404
                              /\ response'.errors # {}
                              /\ UNCHANGED db ) )

\* the JSON update of an id that is not stored was answered 404 while other
\* Members are stored
C9_Witness ==
    /\ response.op = "member_update_json"
    /\ response.status = 404
    /\ pks # {}

\* C10: a JSON create with every required key and an unused email answers 201
\* with an id; the id is that of a Member that was not stored before and now
\* holds the submitted values, and it is the one Member added: the other rows
\* are as before.  No other create answers 201.
C10_CreateReturnsNewId ==
    \A r \in CreateRequests :
       LET good == /\ r[1] = "POST" /\ loads(r[2])
                   /\ ABSENT \notin {r[2].firstname, r[2].lastname, r[2].email}
                   /\ ~EmailUsedByAnother(r[2].email, NULL)
       IN ~ENABLED ( /\ member_create_json(r[1], r[2])
                     /\ ~( IF good
                           THEN /\ response'.status = 201
                                /\ response'.id \notin pks
                                /\ DOMAIN members' = pks \cup {response'.id}
                                /\ \A m \in pks : members'[m] = members[m]
                                /\ members'[response'.id].email = r[2].email
                                /\ members'[response'.id].firstname = r[2].firstname
                                /\ members'[response'.id].lastname = r[2].lastname
                           ELSE /\ response'.status # 201
                                /\ UNCHANGED db ) )

\* a create answered 201 with the third id while two Members are stored: one
\* Member was deleted before, and its id is not handed out again
C10_Witness ==
    /\ response.op = "member_create_json"
    /\ response.status = 201
    /\ response.id > Cardinality(pks)

\* the keys of a Member's dictionary
MemberKeys == {"id", "firstname", "lastname", "email", "phone", "joined_date"}

\* the dictionary d has exactly the declared keys and the values stored for pk
ShowsStored(d, pk) ==
    /\ DOMAIN d = MemberKeys
    /\ d.id = pk
    /\ \A f \in {"firstname", "lastname", "email", "phone"} : d[f] = members[pk][f]
    /\ \A day \in 1..MaxDay :
          d.joined_date = isoformat(day) <=> day = members[pk].joined_date

\* C11: the JSON list endpoint answers with one dictionary for every stored
\* Member and no other, the JSON detail endpoint with one dictionary for the
\* requested Member; each has exactly the keys id, firstname, lastname, email,
\* phone, joined_date and the values stored for that Member.
C11_DeclaredFields ==
    /\ ~ENABLED ( /\ member_list_json
                  /\ ~( /\ response'.status = 200
                        /\ Len(response'.data) = Cardinality(pks)
                        /\ \A m \in pks :
                              \E i \in 1..Len(response'.data) :
                                 ShowsStored(response'.data[i], m) ) )
    /\ \A pk \in pks :
          ~ENABLED ( /\ member_detail_json(pk)
                     /\ ~( /\ response'.status = 200
                           /\ Len(response'.data) = 1
                           /\ ShowsStored(response'.data[1], pk) ) )

\* the list was answered with the dictionaries of two Members that joined on
\* different days
C11_Witness ==
    /\ response.op = "member_list_json"
    /\ Len(response.data) = 2
    /\ response.data[1].joined_date # response.data[2].joined_date

\* C12: the JSON create endpoint answers a POST whose body is not JSON, or is
\* a JSON object without firstname, lastname or email, and the JSON update
\* endpoint answers a request (POST, PUT, PATCH) for a stored Member whose body
\* is not JSON, with status 400 and an error; no Member is created or modified.
C12_BadBodyIs400 ==
    /\ \A r \in CreateRequests :
          ( /\ r[1] = "POST"
            /\ \/ ~r[2].json
               \/ ABSENT \in {r[2].firstname, r[2].lastname, r[2].email} )
          => ~ENABLED ( /\ member_create_json(r[1], r[2])
                        /\ ~( /\ response'.status = 400
                              /\ response'.errors # {}
                              /\ UNCHANGED db ) )
    /\ \A pk \in pks, r \in UpdateRequests :
          (r[1] \in UpdateMethods /\ ~r[2].json)
          => ~ENABLED ( /\ member_update_json(pk, r[1], r[2])
                        /\ ~( /\ response'.status = 400
                              /\ response'.errors # {}
                              /\ UNCHANGED db ) )

\* the update of a stored Member with a body that is not JSON was answered 400
C12_Witness ==
    /\ response.op = "member_update_json"
    /\ response.status = 400
    /\ response.errors = {"JSONDecodeError"}
    /\ pks # {}

\* C13: in every state reached by Match saves, Member deletes and Team
\* deletes, every stored Match whose winner is set has its player1 or its
\* player2 as the winner, and the winner is a stored Member: no delete leaves
\* a winner that is neither player.
C13_WinnerIsAPlayer ==
    \A k \in DOMAIN matches :
       matches[k].winner # NULL
       => /\ matches[k].winner \in {matches[k].player1, matches[k].player2}
          /\ matches[k].winner \in pks

\* a Member was deleted and a Match with a winner is still stored
C13_Witness ==
    /\ response.op = "member_delete"
    /\ response.status = 302
    /\ \E k \in DOMAIN matches : matches[k].winner # NULL

\* C14: a GET of the HTML delete URL shows the confirmation page and leaves
\* the stored Members, Profiles and Matches (and Teams) as they are, and a POST
\* of it removes the Member; the list and detail views, HTML and JSON, and a
\* GET of the create and of the edit form change no stored record.
C14_ReadsChangeNothing ==
    /\ \A pk \in PKs :
          /\ ~ENABLED ( /\ member_delete(pk, "GET")
                        /\ ~( /\ UNCHANGED db
                              /\ pk \in pks => response'.status = 200 ) )
          /\ ~ENABLED (member_delete(pk, "POST") /\ pk \in DOMAIN members')
          /\ ~ENABLED (member_detail(pk) /\ ~UNCHANGED db)
          /\ ~ENABLED (member_detail_json(pk) /\ ~UNCHANGED db)
          /\ ~ENABLED (member_update(pk, "GET", NoData) /\ ~UNCHANGED db)
    /\ ~ENABLED (member_list /\ ~UNCHANGED db)
    /\ ~ENABLED (member_list_json /\ ~UNCHANGED db)
    /\ ~ENABLED (member_create("GET", NoData) /\ ~UNCHANGED db)

\* the confirmation page was shown for a Member that has a Profile and plays a
\* Match, and all three are stored
C14_Witness ==
    /\ response.op = "member_delete"
    /\ response.status = 200
    /\ response.id \in pks
    /\ response.id \in profiles
    /\ \E k \in DOMAIN matches : matches[k].player1 = response.id

\* C15: when create requests with the same email are taken through their
\* check and save steps in any order, no two stored Members have the same
\* email; a request that passed the checks and whose email has been stored in
\* the meantime fails at its save, which writes nothing.
C15_InterleavedCreates ==
    /\ \A m \in pks : ~EmailUsedByAnother(members[m].email, m)
    /\ \A w \in Workers :
          ( /\ in_flight[w].pc = "save"
            /\ EmailUsedByAnother(cleaned_data(in_flight[w].data).email, NULL) )
          => ~ENABLED ( /\ create_save(w)
                        /\ ~( /\ response'.status = 500
                              /\ UNCHANGED db ) )

\* a create that had passed both checks of the form was refused by the store,
\* and its email is stored once
C15_Witness ==
    /\ response.op = "member_create"
    /\ response.status = 500
    /\ pks # {}
    /\ \A w \in Workers : in_flight[w].pc = "idle"

=============================================================================
